---- MODULE Spec2Model ----
(***************************************************************************)
(* The split-funds escrow program (programs/split-funds/src/lib.rs) as a   *)
(* state machine over the host ledger's records.                           *)
(*                                                                         *)
(* The ledger holds three kinds of program records (GroupAccount,          *)
(* MemberAccount, EscrowAccount) and the token accounts of the external    *)
(* asset ledger.  A transaction names the records it acts on; the host     *)
(* runs one transaction at a time, validates the named accounts, runs the  *)
(* handler and commits its writes only when the handler returns Ok.        *)
(***************************************************************************)
EXTENDS Integers, FiniteSets, Sequences, TLC

(* ------------------------------ bounds -------------------------------- *)

\* Host time runs over 0..MaxTime.
MaxTime == 1
\* Largest value of an unsigned 64-bit field, scaled down: amounts,
\* contributed, total_held and token balances range over 0..MaxU64 and
\* arithmetic on them wraps modulo MaxU64 + 1.
MaxU64 == 2

(* ---------------------------- identifiers ----------------------------- *)

\* Signing authorities (wallets).
Users == {"alice", "bob"}
\* Addresses at which a GroupAccount can be created.
GroupIds == {"g1", "g2"}
\* Addresses at which a MemberAccount can be created.
MemberIds == {1, 2}
\* Addresses of the EscrowAccount records: the escrow of group "g1" (the
\* program has no instruction that creates one, so the escrows are those set
\* up outside it; group "g2" has none).
EscrowIds == {"e1"}
\* Token accounts of the asset ledger.
TokenAccountIds == {"ta", "tb", "t1"}

\* Inputs of create_group.
GroupOwners == {"alice"}
GroupNameLens == {5, 100}
TotalCosts == {3}
DueTimes == 0..MaxTime
\* Inputs of invite_member.
MemberAuthorities == {"alice"}
\* Inputs of deposit_funds.
Amounts == 0..MaxU64

(* ------------------------- the external ledger ------------------------ *)

\* TokenAccount.owner: the authority allowed to move each token account's
\* balance.  "ta" and "tb" are wallets' accounts, "t1" is the asset holding
\* of the escrow "e1".
TokenOwner ==
    [t \in TokenAccountIds |->
        CASE t = "ta" -> "alice"
          [] t = "tb" -> "bob"
          [] t = "t1" -> "e1"]

\* Token balances before the first transaction: alice holds two tokens.
InitialBalance ==
    [t \in TokenAccountIds |-> IF t = "ta" THEN 2 ELSE 0]

\* The seeds from which each escrow's address is derived: the identifier of
\* the group it belongs to and a bump.
EscrowSeeds ==
    [e \in EscrowIds |-> [group |-> "g1", bump |-> 255]]

\* The program-derived address of seeds (group key, bump): the escrow derived
\* from exactly these seeds, and otherwise an address that is no escrow's.
CreateProgramAddress(group_key, bump) ==
    IF \E e \in EscrowIds : EscrowSeeds[e] = [group |-> group_key, bump |-> bump]
    THEN CHOOSE e \in EscrowIds : EscrowSeeds[e] = [group |-> group_key, bump |-> bump]
    ELSE "no_account"

\* transfer(from, to, authority, amount) of the asset ledger, given the set of
\* authorities that signed: ok | insufficient_balance | unauthorized.
TransferResult(bal, from, to, authority, signers, amount) ==
    IF authority \notin signers THEN "Unauthorized"
    ELSE IF bal[from] < amount THEN "InsufficientBalance"
    ELSE IF TokenOwner[from] # authority THEN "Unauthorized"
    ELSE "Ok"

\* The balances after an accepted transfer (a transfer of an account to
\* itself moves nothing).
TransferApply(bal, from, to, amount) ==
    IF from = to THEN bal
    ELSE [bal EXCEPT ![from] = @ - amount, ![to] = @ + amount]

(* -------------------------------- state ------------------------------- *)

VARIABLES
    groups,           \* GroupAccount records, by address (created ones only)
    members,          \* MemberAccount records, by address (created ones only)
    escrows,          \* EscrowAccount records, by address
    tokens,           \* token account balances
    now,              \* Clock::get()?.unix_timestamp
    paid_out,         \* history: the groups an execute_payout has succeeded for
    paid_nonzero,     \* history: the groups an execute_payout has moved tokens for
    tx                \* the transaction being processed, then its result

vars == <<groups, members, escrows, tokens, now, paid_out, paid_nonzero, tx>>
ledger == <<groups, members, escrows, tokens>>

\* tx is idle (no transaction in progress), pending (submitted, its handler
\* not yet run) or done (the handler has run; err is what the caller sees).
Idle == [phase |-> "idle", op |-> "none", err |-> "none", args |-> <<>>]
Pending(op, args) == [phase |-> "pending", op |-> op, err |-> "none", args |-> args]
Done(op, err, args) == [phase |-> "done", op |-> op, err |-> err, args |-> args]

IsPending(op) == tx.phase = "pending" /\ tx.op = op
IsDone(op, err) == tx.phase = "done" /\ tx.op = op /\ tx.err = err

\* The EscrowAccount records before the first transaction: one per group
\* identifier, at the address derived from that identifier, holding nothing.
InitEscrows ==
    [e \in EscrowIds |->
        [group |-> EscrowSeeds[e].group, total_held |-> 0, bump |-> EscrowSeeds[e].bump]]

Init ==
    /\ groups = <<>>
    /\ members = <<>>
    /\ escrows = InitEscrows
    /\ tokens = InitialBalance
    /\ now = 0
    /\ paid_out = {}
    /\ paid_nonzero = {}
    /\ tx = Idle

(* ---------------------------- transactions ---------------------------- *)

\* A caller submits a transaction; the arguments are the caller's choice.
SubmitCreateGroup ==
    /\ tx.phase = "idle"
    /\ \E g \in GroupIds, owner \in GroupOwners, name_len \in GroupNameLens,
          total_cost \in TotalCosts, subscription_due \in DueTimes :
          tx' = Pending("create_group",
                        [group |-> g, owner |-> owner, group_name |-> name_len,
                         total_cost |-> total_cost,
                         subscription_due |-> subscription_due])
    /\ UNCHANGED <<ledger, now, paid_out, paid_nonzero>>

SubmitInviteMember ==
    /\ tx.phase = "idle"
    /\ \E g \in GroupIds, m \in MemberIds, u \in MemberAuthorities :
          tx' = Pending("invite_member",
                        [group |-> g, member |-> m, member_authority |-> u])
    /\ UNCHANGED <<ledger, now, paid_out, paid_nonzero>>

SubmitDepositFunds ==
    /\ tx.phase = "idle"
    /\ \E g \in GroupIds, m \in MemberIds, u \in Users,
          from \in TokenAccountIds, to \in TokenAccountIds,
          e \in EscrowIds, amount \in Amounts :
          tx' = Pending("deposit_funds",
                        [group |-> g, member |-> m, member_authority |-> u,
                         from_token_account |-> from,
                         escrow_token_account |-> to,
                         escrow |-> e, amount |-> amount])
    /\ UNCHANGED <<ledger, now, paid_out, paid_nonzero>>

\* No account of ExecutePayout is a Signer: caller is whoever submits (and
\* pays for) the transaction, and the handler never reads it.
SubmitExecutePayout ==
    /\ tx.phase = "idle"
    /\ \E caller \in Users, g \in GroupIds, e \in EscrowIds,
          from \in TokenAccountIds, to \in TokenAccountIds :
          tx' = Pending("execute_payout",
                        [caller |-> caller, group |-> g, escrow |-> e,
                         escrow_token_account |-> from,
                         owner_token_account |-> to])
    /\ UNCHANGED <<ledger, now, paid_out, paid_nonzero>>

(* ------------------------------ handlers ------------------------------ *)

\* Bytes of a serialized GroupAccount: discriminator, owner, the name's
\* length prefix and bytes, total_cost, subscription_due, member_count,
\* is_active.
GroupSize(name_len) == 8 + 32 + 4 + name_len + 8 + 8 + 1 + 1
\* space = 8 + 128 of the group account.
GroupSpace == 8 + 128

\* create_group on an account that already holds a group (init_if_needed
\* in place of init).
CreateGroupResult_InitIfNeeded(a) ==
    IF GroupSize(a.group_name) > GroupSpace THEN "AllocationError"
    ELSE "Ok"

\* The accounts of CreateGroup: group is created by the call (init) with
\* the space reserved for it.
CreateGroupResult(a) ==
    IF a.group \in DOMAIN groups THEN "AccountInUse"
    ELSE IF GroupSize(a.group_name) > GroupSpace THEN "AllocationError"
    ELSE "Ok"

create_group ==
    /\ IsPending("create_group")
    /\ LET a == tx.args
           err == CreateGroupResult(a)
       IN /\ tx' = Done("create_group", err, a)
          /\ IF err = "Ok"
             THEN groups' = (a.group :>
                      [owner |-> a.owner,
                       group_name |-> a.group_name,
                       total_cost |-> a.total_cost,
                       subscription_due |-> a.subscription_due,
                       member_count |-> 0,
                       is_active |-> TRUE]) @@ groups
             ELSE UNCHANGED groups
    /\ UNCHANGED <<members, escrows, tokens, now, paid_out, paid_nonzero>>

\* invite_member on an account that already holds a member (init_if_needed
\* in place of init).
InviteMemberResult_InitIfNeeded(a) ==
    IF a.group \notin DOMAIN groups THEN "AccountNotInitialized"
    ELSE "Ok"

\* The accounts of InviteMember: group must hold a GroupAccount, member is
\* created by the call (init).
InviteMemberResult(a) ==
    IF a.group \notin DOMAIN groups THEN "AccountNotInitialized"
    ELSE IF a.member \in DOMAIN members THEN "AccountInUse"
    ELSE "Ok"

\* invite_member counting the members of the group (member_count is a u8).
InviteGroup_CountMembers(a) ==
    [groups[a.group] EXCEPT !.member_count = (@ + 1) % 256]

\* The group record invite_member leaves: the account is passed mutable but
\* the handler only takes its key, so it is stored back as it was.
InviteGroup(a) == groups[a.group]

invite_member ==
    /\ IsPending("invite_member")
    /\ LET a == tx.args
           err == InviteMemberResult(a)
       IN /\ tx' = Done("invite_member", err, a)
          /\ IF err = "Ok"
             THEN /\ members' = (a.member :>
                        [group |-> a.group,
                         member |-> a.member_authority,
                         contributed |-> 0,
                         has_paid |-> FALSE]) @@ members
                  /\ groups' = [groups EXCEPT ![a.group] = InviteGroup(a)]
             ELSE UNCHANGED <<members, groups>>
    /\ UNCHANGED <<escrows, tokens, now, paid_out, paid_nonzero>>

\* What the asset ledger answers to the transfer deposit_funds asks for: from
\* the member's token account to the escrow's, signed by member_authority.
DepositTransfer(a) ==
    TransferResult(tokens, a.from_token_account, a.escrow_token_account,
                   a.member_authority, {a.member_authority}, a.amount)

\* escrow.total_held += amount on a u64: a build with overflow checks traps
\* when the sum does not fit, a build without them wraps.  Which build runs
\* is not fixed by the source: overflow_checks is either.
DepositOverflows(a) == escrows[a.escrow].total_held + a.amount > MaxU64

\* deposit_funds without the has_paid check.
DepositFundsResult_NoPaidCheck(a, overflow_checks) ==
    IF a.group \notin DOMAIN groups \/ a.member \notin DOMAIN members
    THEN "AccountNotInitialized"
    ELSE IF ~groups[a.group].is_active THEN "InactiveGroup"
    ELSE IF DepositTransfer(a) # "Ok" THEN DepositTransfer(a)
    ELSE IF overflow_checks /\ DepositOverflows(a) THEN "ArithmeticOverflow"
    ELSE "Ok"

\* deposit_funds without the is_active check.
DepositFundsResult_NoActiveCheck(a, overflow_checks) ==
    IF a.group \notin DOMAIN groups \/ a.member \notin DOMAIN members
    THEN "AccountNotInitialized"
    ELSE IF members[a.member].has_paid THEN "AlreadyPaid"
    ELSE IF DepositTransfer(a) # "Ok" THEN DepositTransfer(a)
    ELSE IF overflow_checks /\ DepositOverflows(a) THEN "ArithmeticOverflow"
    ELSE "Ok"

\* deposit_funds going on after a refused transfer (the result of
\* token::transfer dropped instead of propagated with ?).
DepositFundsResult_IgnoreTransfer(a, overflow_checks) ==
    IF a.group \notin DOMAIN groups \/ a.member \notin DOMAIN members
    THEN "AccountNotInitialized"
    ELSE IF ~groups[a.group].is_active THEN "InactiveGroup"
    ELSE IF members[a.member].has_paid THEN "AlreadyPaid"
    ELSE IF overflow_checks /\ DepositOverflows(a) THEN "ArithmeticOverflow"
    ELSE "Ok"

\* The result of deposit_funds: the account validation of DepositFunds, then
\* the handler's checks in the order of the code.
DepositFundsResult(a, overflow_checks) ==
    IF a.group \notin DOMAIN groups \/ a.member \notin DOMAIN members
    THEN "AccountNotInitialized"
    ELSE IF ~groups[a.group].is_active THEN "InactiveGroup"
    ELSE IF members[a.member].has_paid THEN "AlreadyPaid"
    ELSE IF DepositTransfer(a) # "Ok" THEN DepositTransfer(a)
    ELSE IF overflow_checks /\ DepositOverflows(a) THEN "ArithmeticOverflow"
    ELSE "Ok"

\* The records deposit_funds writes.
DepositMember(a) ==
    [members[a.member] EXCEPT !.contributed = a.amount, !.has_paid = TRUE]

DepositEscrow(a) ==
    [escrows[a.escrow] EXCEPT !.total_held = (@ + a.amount) % (MaxU64 + 1)]

deposit_funds ==
    /\ IsPending("deposit_funds")
    /\ \E err \in {DepositFundsResult(tx.args, overflow_checks) :
                        overflow_checks \in BOOLEAN} :
       LET a == tx.args
       IN /\ tx' = Done("deposit_funds", err, a)
          /\ IF err = "Ok"
             THEN /\ tokens' = TransferApply(tokens, a.from_token_account,
                                             a.escrow_token_account, a.amount)
                  /\ members' = [members EXCEPT ![a.member] = DepositMember(a)]
                  /\ escrows' = [escrows EXCEPT ![a.escrow] = DepositEscrow(a)]
             ELSE UNCHANGED <<tokens, members, escrows>>
    /\ UNCHANGED <<groups, now, paid_out, paid_nonzero>>

\* Signer seeds taken from the group stored in the escrow instead of the
\* group passed to the call.
PayoutSigners_StoredGroup(a) ==
    {CreateProgramAddress(escrows[a.escrow].group, escrows[a.escrow].bump)}

\* The signer seeds of the payout's transfer: the key of the group passed to
\* the call and the bump stored in the escrow passed to the call.  The host
\* lets the program sign for the address derived from them, and no other.
PayoutSigners(a) ==
    {CreateProgramAddress(a.group, escrows[a.escrow].bump)}

\* What the asset ledger answers to the transfer execute_payout asks for:
\* total_held from the escrow's token account to the owner's, with the escrow
\* as authority.
PayoutTransfer(a) ==
    TransferResult(tokens, a.escrow_token_account, a.owner_token_account,
                   a.escrow, PayoutSigners(a), escrows[a.escrow].total_held)

\* execute_payout with the time gate off by one (a payout one time unit
\* before the due time passes it).
ExecutePayoutResult_OffByOne(a) ==
    IF a.group \notin DOMAIN groups THEN "AccountNotInitialized"
    ELSE IF ~(now + 1 >= groups[a.group].subscription_due) THEN "TooEarly"
    ELSE PayoutTransfer(a)

\* execute_payout open to the owner of the group only.
ExecutePayoutResult_OwnerOnly(a) ==
    IF a.group \notin DOMAIN groups THEN "AccountNotInitialized"
    ELSE IF a.caller # groups[a.group].owner THEN "Unauthorized"
    ELSE IF ~(now >= groups[a.group].subscription_due) THEN "TooEarly"
    ELSE PayoutTransfer(a)

\* execute_payout refusing a group that is no longer active.
ExecutePayoutResult_ActiveGuard(a) ==
    IF a.group \notin DOMAIN groups THEN "AccountNotInitialized"
    ELSE IF ~groups[a.group].is_active THEN "InactiveGroup"
    ELSE IF ~(now >= groups[a.group].subscription_due) THEN "TooEarly"
    ELSE PayoutTransfer(a)

\* The result of execute_payout: the account validation of ExecutePayout,
\* the time gate, then the transfer.
ExecutePayoutResult(a) ==
    IF a.group \notin DOMAIN groups THEN "AccountNotInitialized"
    ELSE IF ~(now >= groups[a.group].subscription_due) THEN "TooEarly"
    ELSE PayoutTransfer(a)

\* execute_payout setting total_held back to zero once it is paid out.
PayoutEscrow_ReZero(a) ==
    [escrows[a.escrow] EXCEPT !.total_held = 0]

\* The escrow record execute_payout leaves: the handler borrows it mutably
\* but only reads total_held and bump, so it is stored back as it was.
PayoutEscrow(a) == escrows[a.escrow]

execute_payout ==
    /\ IsPending("execute_payout")
    /\ LET a == tx.args
           err == ExecutePayoutResult(a)
       IN /\ tx' = Done("execute_payout", err, a)
          /\ IF err = "Ok"
             THEN /\ tokens' = TransferApply(tokens, a.escrow_token_account,
                                             a.owner_token_account,
                                             escrows[a.escrow].total_held)
                  /\ groups' = [groups EXCEPT ![a.group].is_active = FALSE]
                  /\ escrows' = [escrows EXCEPT ![a.escrow] = PayoutEscrow(a)]
                  /\ paid_out' = paid_out \cup {a.group}
                  /\ paid_nonzero' = IF tokens' # tokens
                                     THEN paid_nonzero \cup {a.group}
                                     ELSE paid_nonzero
             ELSE UNCHANGED <<tokens, groups, escrows, paid_out, paid_nonzero>>
    /\ UNCHANGED <<members, now>>

\* The caller has seen the result; the host takes the next transaction.
Complete ==
    /\ tx.phase = "done"
    /\ tx' = Idle
    /\ UNCHANGED <<ledger, now, paid_out, paid_nonzero>>

\* Host time advances between transactions.
Tick ==
    /\ tx.phase = "idle"
    /\ now < MaxTime
    /\ now' = now + 1
    /\ UNCHANGED <<ledger, paid_out, paid_nonzero, tx>>

Next ==
    \/ SubmitCreateGroup
    \/ SubmitInviteMember
    \/ SubmitDepositFunds
    \/ SubmitExecutePayout
    \/ create_group
    \/ invite_member
    \/ deposit_funds
    \/ execute_payout
    \/ Complete
    \/ Tick

Spec == Init /\ [][Next]_vars

\* The host runs the handler of every transaction it has taken.
LiveSpec == Spec /\ WF_vars(execute_payout)

(* ------------------------------- claims ------------------------------- *)

RECURSIVE SumOver(_, _)
\* The sum of f[x] over x in S.
SumOver(S, f) ==
    IF S = {} THEN 0
    ELSE LET x == CHOOSE y \in S : TRUE
         IN f[x] + SumOver(S \ {x}, f)

\* The Member records of group g that have paid.
PaidMembers(g) ==
    {m \in DOMAIN members : members[m].group = g /\ members[m].has_paid}

\* The sum of contributed over the Member records of group g that have paid.
PaidSum(g) ==
    SumOver(PaidMembers(g), [m \in DOMAIN members |-> members[m].contributed])

\* The arguments of the transaction whose handler is about to run.
a_ == tx.args

\* C1: in every reachable state each escrow's total_held equals the sum of
\* contributed over the Member records of that escrow's group with
\* has_paid = true.  (Fails: deposit_funds ties neither the member nor the
\* group it is given to the escrow it is given.)
C1_TotalHeldIsPaidSum ==
    \A e \in EscrowIds : escrows[e].total_held = PaidSum(escrows[e].group)

\* C2 as stated: a deposit_funds call on a Member with has_paid = true, with
\* any group record and any amount, fails with AlreadyPaid and changes no
\* record and no balance.
C2_PaidDepositFailsAlreadyPaid ==
    [][(/\ IsPending("deposit_funds")
        /\ a_.group \in DOMAIN groups
        /\ a_.member \in DOMAIN members
        /\ members[a_.member].has_paid)
       => (tx'.err = "AlreadyPaid" /\ UNCHANGED ledger)]_vars

\* C2 as amended: a deposit_funds call on a Member with has_paid = true
\* fails and changes no record and no balance; the error is AlreadyPaid
\* when the group passed to the call is active and InactiveGroup when it is
\* not (is_active is checked first).
C2_PaidDepositFails ==
    [][(/\ IsPending("deposit_funds")
        /\ a_.group \in DOMAIN groups
        /\ a_.member \in DOMAIN members
        /\ members[a_.member].has_paid)
       => (/\ tx'.err = IF groups[a_.group].is_active
                        THEN "AlreadyPaid" ELSE "InactiveGroup"
           /\ UNCHANGED ledger)]_vars

\* A deposit on a paid Member was refused with AlreadyPaid after the payout
\* of the member's own group (the call named another, active group).
C2_Witness ==
    /\ IsDone("deposit_funds", "AlreadyPaid")
    /\ members[tx.args.member].has_paid
    /\ members[tx.args.member].group \in paid_out

\* C3: an execute_payout call made while host time is strictly before the
\* subscription_due of the group passed to it fails with TooEarly and
\* changes no balance and no record.
C3_EarlyPayoutFails ==
    [][(/\ IsPending("execute_payout")
        /\ a_.group \in DOMAIN groups
        /\ now < groups[a_.group].subscription_due)
       => (tx'.err = "TooEarly" /\ UNCHANGED ledger)]_vars

\* A payout of an escrow that holds funds was refused with TooEarly.
C3_Witness ==
    /\ IsDone("execute_payout", "TooEarly")
    /\ escrows[tx.args.escrow].total_held > 0
    /\ tokens[tx.args.escrow_token_account] > 0
    /\ TokenOwner[tx.args.escrow_token_account] = tx.args.escrow
    /\ escrows[tx.args.escrow].group = tx.args.group

\* The token accounts whose authority is escrow e: its asset holding.
Holding(e) == {t \in TokenAccountIds : TokenOwner[t] = e}

\* C4: every execute_payout call at or after the subscription_due of the
\* group passed to it (equality included) that goes through moves exactly
\* escrow.total_held from the escrow's token account to the destination
\* account and leaves the group inactive, and that amount is the sum of the
\* deposits of the group's members who paid.  (Fails on the last part: the
\* escrow's total_held also counts deposits made against it through other
\* groups' records.)
C4_PayoutMovesPaidSum ==
    [][(/\ IsPending("execute_payout")
        /\ a_.group \in DOMAIN groups
        /\ now >= groups[a_.group].subscription_due
        /\ tx'.err = "Ok")
       => (/\ tokens' = TransferApply(tokens, a_.escrow_token_account,
                                      a_.owner_token_account,
                                      escrows[a_.escrow].total_held)
           /\ ~groups'[a_.group].is_active
           /\ escrows[a_.escrow].total_held = PaidSum(a_.group))]_vars

\* C5: once an execute_payout has succeeded for a group, every deposit_funds
\* call that names that group fails with InactiveGroup, whatever the Member
\* record, the signer and the amount, and changes no record and no balance.
C5_NoDepositAfterPayout ==
    [][(/\ IsPending("deposit_funds")
        /\ a_.group \in paid_out
        /\ a_.member \in DOMAIN members)
       => (tx'.err = "InactiveGroup" /\ UNCHANGED ledger)]_vars

\* A deposit of a positive amount the signer holds, on an unpaid Member, was
\* refused with InactiveGroup after the payout of the group it names.
C5_Witness ==
    /\ IsDone("deposit_funds", "InactiveGroup")
    /\ tx.args.group \in paid_out
    /\ ~members[tx.args.member].has_paid
    /\ tx.args.amount > 0
    /\ DepositTransfer(tx.args) = "Ok"

\* C6: a deposit_funds or execute_payout call that fails changes nothing;
\* and a call that passes the program's own checks but whose transfer the
\* asset ledger refuses does fail, with the ledger's answer, so that the
\* Member stays unpaid with contributed = 0, total_held stays as it was and
\* is_active stays as it was.
C6_FailureChangesNothing ==
    [][/\ (tx.phase = "pending" /\ tx.op \in {"deposit_funds", "execute_payout"}
           /\ tx'.err # "Ok")
          => UNCHANGED ledger
       /\ (/\ IsPending("deposit_funds")
           /\ a_.group \in DOMAIN groups
           /\ a_.member \in DOMAIN members
           /\ groups[a_.group].is_active
           /\ ~members[a_.member].has_paid
           /\ DepositTransfer(a_) # "Ok")
          => (/\ tx'.err = DepositTransfer(a_)
              /\ ~members'[a_.member].has_paid
              /\ members'[a_.member].contributed = 0
              /\ escrows'[a_.escrow].total_held = escrows[a_.escrow].total_held
              /\ UNCHANGED ledger)
       /\ (/\ IsPending("execute_payout")
           /\ a_.group \in DOMAIN groups
           /\ now >= groups[a_.group].subscription_due
           /\ PayoutTransfer(a_) # "Ok")
          => (/\ tx'.err = PayoutTransfer(a_)
              /\ groups'[a_.group].is_active = groups[a_.group].is_active
              /\ UNCHANGED ledger)]_vars

\* A deposit on an unpaid Member of an active group was refused by the asset
\* ledger for insufficient balance, and the Member is still unpaid.
C6_Witness ==
    /\ IsDone("deposit_funds", "InsufficientBalance")
    /\ ~members[tx.args.member].has_paid
    /\ members[tx.args.member].contributed = 0
    /\ groups[tx.args.group].is_active

\* C7: a group is created with is_active = true; is_active changes only in
\* a successful execute_payout on that group, and then from true to false;
\* once false it stays false, and no group record is ever removed.
C7_IsActiveOnlyFalls ==
    [][\A g \in GroupIds :
         /\ (g \notin DOMAIN groups /\ g \in DOMAIN groups')
            => groups'[g].is_active
         /\ g \in DOMAIN groups
            => /\ g \in DOMAIN groups'
               /\ groups'[g].is_active # groups[g].is_active
                  => /\ IsPending("execute_payout")
                     /\ a_.group = g
                     /\ tx'.err = "Ok"
                     /\ groups[g].is_active
                     /\ ~groups'[g].is_active
               /\ ~groups[g].is_active => ~groups'[g].is_active]_vars

\* A create_group on the address of a group that was paid out was refused,
\* and the group is still inactive.
C7_Witness ==
    /\ IsDone("create_group", "AccountInUse")
    /\ tx.args.group \in paid_out
    /\ ~groups[tx.args.group].is_active

\* C8: a Member record is created with has_paid = false and contributed = 0
\* and keeps them until a successful deposit_funds on it; that deposit sets
\* has_paid = true and contributed = amount; no other step changes the
\* record, and a paid record never changes again.
C8_MemberPaysOnce ==
    [][\A m \in MemberIds :
         /\ (m \notin DOMAIN members /\ m \in DOMAIN members')
            => (~members'[m].has_paid /\ members'[m].contributed = 0)
         /\ m \in DOMAIN members
            => /\ m \in DOMAIN members'
               /\ ~members[m].has_paid => members[m].contributed = 0
               /\ members[m].has_paid => members'[m] = members[m]
               /\ members'[m] # members[m]
                  => /\ IsPending("deposit_funds")
                     /\ a_.member = m
                     /\ tx'.err = "Ok"
               /\ (IsPending("deposit_funds") /\ a_.member = m /\ tx'.err = "Ok")
                  => members'[m] = [members[m] EXCEPT !.has_paid = TRUE,
                                                      !.contributed = a_.amount]]_vars

\* A second invitation to the address of a Member that has paid a positive
\* amount was refused, and the record still shows the payment.
C8_Witness ==
    /\ IsDone("invite_member", "AccountInUse")
    /\ members[tx.args.member].has_paid
    /\ members[tx.args.member].contributed > 0

\* C9: a deposit_funds call succeeds only when its signer, member_authority,
\* is the authority recorded in the Member record at invitation.  (Fails:
\* DepositFunds does not compare member.member with member_authority.)
C9_OnlyInvitedAuthorityDeposits ==
    [][(IsPending("deposit_funds") /\ tx'.err = "Ok")
       => a_.member_authority = members[a_.member].member]_vars

\* C10: the balance of an escrow's asset holding decreases only in a step
\* taken when the escrow's owning group exists and host time has reached
\* that group's subscription_due.
C10_NoOutflowBeforeDue ==
    [][\A e \in EscrowIds : \A t \in Holding(e) :
         tokens'[t] < tokens[t]
         => /\ escrows[e].group \in DOMAIN groups
            /\ now >= groups[escrows[e].group].subscription_due]_vars

\* An execute_payout that paired a funded escrow, before its own group's due
\* time, with another group whose due time had passed was refused as
\* unauthorized.
C10_Witness ==
    /\ IsDone("execute_payout", "Unauthorized")
    /\ tx.args.group # escrows[tx.args.escrow].group
    /\ now >= groups[tx.args.group].subscription_due
    /\ escrows[tx.args.escrow].group \in DOMAIN groups
    /\ now < groups[escrows[tx.args.escrow].group].subscription_due
    /\ tx.args.escrow_token_account \in Holding(tx.args.escrow)
    /\ tokens[tx.args.escrow_token_account] > 0
    /\ escrows[tx.args.escrow].total_held = tokens[tx.args.escrow_token_account]

\* C11: every successful execute_payout that moves tokens credits a token
\* account whose authority is the owner of the group passed to it, whoever
\* submits the call.  (Fails: ExecutePayout puts no constraint on
\* owner_token_account.)
C11_PayoutCreditsOwner ==
    [][(/\ IsPending("execute_payout")
        /\ tx'.err = "Ok"
        /\ tokens' # tokens)
       => TokenOwner[a_.owner_token_account] = groups[a_.group].owner]_vars

\* A call of execute_payout on escrow e, its asset holding and its group, at
\* or after the group's due time, made while the holding's balance is at
\* least total_held.
PayoutInvoked(e) ==
    /\ IsPending("execute_payout")
    /\ a_.escrow = e
    /\ a_.group = escrows[e].group
    /\ a_.group \in DOMAIN groups
    /\ now >= groups[a_.group].subscription_due
    /\ a_.escrow_token_account \in Holding(e)
    /\ tokens[a_.escrow_token_account] >= escrows[e].total_held

\* C12: host time never decreases and a group's due time never changes, so
\* a group that is due stays due; an execute_payout on a due group is never
\* refused with TooEarly; its result is the same whoever submits it; and a
\* call made on the group's escrow while the holding covers total_held leads
\* to is_active = false.
C12_PayoutNeverBlockedOnceDue ==
    /\ [][/\ now' >= now
          /\ \A g \in DOMAIN groups :
               now >= groups[g].subscription_due
               => /\ g \in DOMAIN groups'
                  /\ now' >= groups'[g].subscription_due
          /\ (/\ IsPending("execute_payout")
              /\ a_.group \in DOMAIN groups
              /\ now >= groups[a_.group].subscription_due)
             => /\ tx'.err # "TooEarly"
                /\ \A u \in Users :
                     tx'.err = ExecutePayoutResult([a_ EXCEPT !.caller = u])]_vars
    /\ \A e \in EscrowIds :
         PayoutInvoked(e) ~> (/\ escrows[e].group \in DOMAIN groups
                              /\ ~groups[escrows[e].group].is_active)

\* A payout submitted after the due time by bob, who is neither the owner
\* nor an invited member, went through: it emptied a funded holding and left
\* the group inactive.
C12_Witness ==
    /\ IsDone("execute_payout", "Ok")
    /\ tx.args.caller = "bob"
    /\ groups[tx.args.group].owner # "bob"
    /\ \A m \in DOMAIN members : members[m].member # "bob"
    /\ now > groups[tx.args.group].subscription_due
    /\ escrows[tx.args.escrow].total_held > 0
    /\ tokens[tx.args.escrow_token_account] = 0
    /\ tx.args.owner_token_account # tx.args.escrow_token_account
    /\ ~groups[tx.args.group].is_active

\* C13: every successful deposit_funds and every successful execute_payout
\* acts on the escrow whose owning group is the group passed to the call,
\* and a deposit's Member belongs to that same group: no successful call
\* pairs a group or a Member with another group's escrow.  (Fails for
\* deposit_funds: DepositFunds compares none of member.group, the group's
\* key and escrow.group.)
C13_OneEscrowPerGroup ==
    [][/\ (IsPending("deposit_funds") /\ tx'.err = "Ok")
          => /\ escrows[a_.escrow].group = a_.group
             /\ members[a_.member].group = a_.group
       /\ (IsPending("execute_payout") /\ tx'.err = "Ok")
          => escrows[a_.escrow].group = a_.group]_vars

\* The errors the program itself raises (CustomError).
CustomError == {"InactiveGroup", "AlreadyPaid", "TooEarly"}

\* C14: an execute_payout call at or after the due time on a group that is
\* already inactive is refused by no check of the program: its result is
\* the asset ledger's answer to a transfer of the escrow's total_held, which
\* no payout changes.  On the group's own escrow and holding it is therefore
\* refused for insufficient balance when total_held > 0 and the holding is
\* empty, and it succeeds again when total_held = 0.
C14_ReplayDecidedByLedger ==
    [][/\ IsPending("execute_payout") => UNCHANGED escrows
       /\ (/\ IsPending("execute_payout")
           /\ a_.group \in DOMAIN groups
           /\ ~groups[a_.group].is_active
           /\ now >= groups[a_.group].subscription_due)
          => /\ tx'.err \notin CustomError
             /\ tx'.err = TransferResult(tokens, a_.escrow_token_account,
                                         a_.owner_token_account, a_.escrow,
                                         PayoutSigners(a_),
                                         escrows[a_.escrow].total_held)
             /\ (/\ escrows[a_.escrow].group = a_.group
                 /\ a_.escrow_token_account \in Holding(a_.escrow))
                => /\ (/\ escrows[a_.escrow].total_held > 0
                       /\ tokens[a_.escrow_token_account] = 0)
                      => tx'.err = "InsufficientBalance"
                   /\ escrows[a_.escrow].total_held = 0
                      => tx'.err = "Ok"]_vars

\* The replay of a payout that had emptied a funded holding was refused by
\* the asset ledger for insufficient balance; total_held is still the amount
\* that was paid out.
C14_Witness ==
    /\ IsDone("execute_payout", "InsufficientBalance")
    /\ tx.args.group \in paid_out
    /\ ~groups[tx.args.group].is_active
    /\ escrows[tx.args.escrow].group = tx.args.group
    /\ tx.args.escrow_token_account \in Holding(tx.args.escrow)
    /\ escrows[tx.args.escrow].total_held > 0
    /\ tokens[tx.args.escrow_token_account] = 0

\* C15: each operation changes only the records its interface lists.  A
\* successful execute_payout changes is_active of the group passed to it
\* and the balances of the two token accounts passed to it, and leaves
\* every escrow (total_held is not set back to zero; bump) and every Member
\* as they were.  A successful deposit_funds changes the Member and the
\* Escrow passed to it (of the escrow, total_held only) and the balances of
\* the two token accounts passed to it, and leaves every Group and every
\* other Member as they were.  create_group and invite_member only add the
\* new record.
C15_FrameEffects ==
    [][/\ (IsPending("execute_payout") /\ tx'.err = "Ok")
          => /\ escrows' = escrows
             /\ members' = members
             /\ groups' = [groups EXCEPT ![a_.group].is_active = FALSE]
             /\ \A t \in TokenAccountIds \ {a_.escrow_token_account,
                                              a_.owner_token_account} :
                  tokens'[t] = tokens[t]
       /\ (IsPending("deposit_funds") /\ tx'.err = "Ok")
          => /\ groups' = groups
             /\ DOMAIN members' = DOMAIN members
             /\ \A m \in DOMAIN members \ {a_.member} : members'[m] = members[m]
             /\ members'[a_.member].group = members[a_.member].group
             /\ members'[a_.member].member = members[a_.member].member
             /\ \A e \in EscrowIds \ {a_.escrow} : escrows'[e] = escrows[e]
             /\ escrows'[a_.escrow].group = escrows[a_.escrow].group
             /\ escrows'[a_.escrow].bump = escrows[a_.escrow].bump
             /\ \A t \in TokenAccountIds \ {a_.from_token_account,
                                              a_.escrow_token_account} :
                  tokens'[t] = tokens[t]
       /\ IsPending("create_group")
          => /\ UNCHANGED <<members, escrows, tokens>>
             /\ \A g \in DOMAIN groups : groups'[g] = groups[g]
       /\ IsPending("invite_member")
          => /\ UNCHANGED <<groups, escrows, tokens>>
             /\ \A m \in DOMAIN members : members'[m] = members[m]]_vars

\* A payout has moved a paid member's deposit out of the holding to another
\* account, and the escrow still shows the total_held it paid out.
C15_Witness ==
    /\ IsDone("execute_payout", "Ok")
    /\ tx.args.escrow_token_account \in Holding(tx.args.escrow)
    /\ tx.args.owner_token_account # tx.args.escrow_token_account
    /\ tokens[tx.args.escrow_token_account] = 0
    /\ tokens[tx.args.owner_token_account] >= escrows[tx.args.escrow].total_held
    /\ escrows[tx.args.escrow].total_held > 0
    /\ \E m \in DOMAIN members :
         /\ members[m].has_paid
         /\ members[m].contributed = escrows[tx.args.escrow].total_held

C17_AnyAmountAccepted ==
    [][(/\ IsPending("deposit_funds")
        /\ a_.group \in DOMAIN groups
        /\ a_.member \in DOMAIN members
        /\ groups[a_.group].is_active
        /\ ~members[a_.member].has_paid
        /\ DepositTransfer(a_) = "Ok")
       => /\ tx'.err = "Ok"
          /\ members'[a_.member].contributed = a_.amount
          /\ members'[a_.member].has_paid
          /\ escrows'[a_.escrow].total_held
                = escrows[a_.escrow].total_held + a_.amount]_vars

\* The balance of the asset holding of escrow e.
HoldingBalance(e) ==
    SumOver(Holding(e), tokens)

\* C18: in every reachable state in which no execute_payout has succeeded
\* yet for an escrow's group, the balance of the escrow's asset holding
\* equals the escrow's total_held.  (Fails: deposit_funds credits total_held
\* of the escrow passed to it whatever token account receives the tokens.)
C18_HoldingIsTotalHeld ==
    \A e \in EscrowIds :
        escrows[e].group \notin paid_out => HoldingBalance(e) = escrows[e].total_held

\* C19: for each group at most one execute_payout moves a non-zero amount.
\* A payout that moves tokens is the first that does for its group; the
\* asset holding of an escrow whose group has had such a payout never
\* receives tokens again; and every later payout of that group with
\* total_held > 0 is refused.  (Fails: a deposit that names another, active
\* group is accepted with this escrow and its holding.)
C19_OneNonZeroPayout ==
    [][/\ (IsPending("execute_payout") /\ tx'.err = "Ok" /\ tokens' # tokens)
          => a_.group \notin paid_nonzero
       /\ (/\ IsPending("execute_payout")
           /\ a_.group \in paid_nonzero
           /\ escrows[a_.escrow].total_held > 0)
          => tx'.err # "Ok"
       /\ \A e \in EscrowIds :
            escrows[e].group \in paid_nonzero
            => \A t \in Holding(e) : tokens'[t] <= tokens[t]]_vars

\* C20: no step decreases an escrow's total_held, and a deposit_funds call
\* that passes every check and whose amount does not fit on top of
\* total_held is aborted and changes nothing.  (Fails: total_held += amount
\* is an unchecked addition, which wraps on a build without overflow
\* checks.)
C20_TotalHeldNeverDecreases ==
    [][/\ \A e \in EscrowIds :
            escrows'[e].total_held >= escrows[e].total_held
       /\ (/\ IsPending("deposit_funds")
           /\ a_.group \in DOMAIN groups
           /\ a_.member \in DOMAIN members
           /\ DepositOverflows(a_))
          => (tx'.err # "Ok" /\ UNCHANGED ledger)]_vars

====
